---------------------------- MODULE Spec2Model ----------------------------
(***************************************************************************)
(* singlecrypt-text: AES-GCM text encryption with a key derived from a     *)
(* passphrase (src/index.js), and the SingleCryptText wrapper that caches  *)
(* the asynchronously derived key.                                         *)
(*                                                                         *)
(* JavaScript strings are sequences of UTF-16 code units (integers), byte  *)
(* arrays are sequences of 0..255.  The platform collaborators (UTF-8      *)
(* codec, base64 codec, SHA-256, AES-GCM, random source) are modelled by   *)
(* what they do on the values the model reaches.                           *)
(***************************************************************************)
EXTENDS Integers, Sequences, FiniteSets, TLC

(***************************************************************************)
(* Bounds of the model.                                                    *)
(***************************************************************************)
MaxKeys    == 2      \* createSymmetricKeyFromText calls of the functional API
MaxNonces  == 2      \* values the random source can deliver
MaxCalls   == 2      \* method calls issued on a SingleCryptText instance

(***************************************************************************)
(* Program constants.                                                      *)
(***************************************************************************)
encryptionAlgorithm == "AES-GCM"
ivBytesLength == 12
keyUsages == {"encrypt", "decrypt"}
base64UrlOptions == [alphabet |-> "base64url"]
Undefined == [undefined |-> TRUE]

tagBytesLength == 16      \* AES-GCM default tagLength of 128 bits
digestBytesLength == 32   \* SHA-256

(***************************************************************************)
(* Results of operations that can throw / promises that can reject.        *)
(***************************************************************************)
Ok(v)  == [ok |-> TRUE,  val |-> v,    err |-> ""]
Err(e) == [ok |-> FALSE, val |-> <<>>, err |-> e]

(***************************************************************************)
(* Optional parameters: a call passes the list `rest` of the optional      *)
(* arguments it gives; a parameter the list does not reach takes its       *)
(* default value.                                                          *)
(***************************************************************************)
OptArg(rest, i, default) == IF Len(rest) >= i THEN rest[i] ELSE default
\* The lists a call can give for one optional boolean parameter.
OptBoolean == {<<>>, <<TRUE>>, <<FALSE>>}

(***************************************************************************)
(* Inputs.  A string is the sequence of its UTF-16 code units.             *)
(***************************************************************************)
ByteOrderMark == 65279   \* U+FEFF, EF BB BF in UTF-8: TextDecoder drops it
Replacement   == 65533   \* U+FFFD: TextEncoder's stand-in for a lone surrogate

\* Plaintexts: the empty text; "a" (1 byte of UTF-8); U+00E9 (2 bytes); a
\* text that starts with U+FEFF (3 + 1 bytes); the unpaired surrogate D83D;
\* the pair D83D DE00, which is U+1F600 (4 bytes).
Texts == {<<>>, <<97>>, <<233>>, <<ByteOrderMark, 97>>,
          <<55357>>, <<55357, 56832>>}
\* Passphrases: "a" and two different unpaired surrogates, D83D and DE00.
Passphrases == {<<97>>, <<55357>>, <<56832>>}
\* A value that is not text (a Symbol): TextEncoder.encode throws TypeError on it.
NotText     == <<-1>>
PassInputs  == Passphrases \cup {NotText}

(***************************************************************************)
(* TextEncoder.prototype.encode: UTF-8 of the string converted to a        *)
(* USVString, i.e. every unpaired surrogate is replaced by U+FFFD.         *)
(***************************************************************************)
IsHigh(u) == u >= 55296 /\ u <= 56319
IsLow(u)  == u >= 56320 /\ u <= 57343

Utf8OfCodePoint(cp) ==
  IF cp < 128 THEN <<cp>>
  ELSE IF cp < 2048 THEN <<192 + (cp \div 64), 128 + (cp % 64)>>
  ELSE IF cp < 65536 THEN
    <<224 + (cp \div 4096), 128 + ((cp \div 64) % 64), 128 + (cp % 64)>>
  ELSE <<240 + (cp \div 262144), 128 + ((cp \div 4096) % 64),
         128 + ((cp \div 64) % 64), 128 + (cp % 64)>>

RECURSIVE TextEncode(_)
TextEncode(s) ==
  IF s = <<>> THEN <<>>
  ELSE LET u == Head(s) IN
    IF IsHigh(u) /\ Len(s) >= 2 /\ IsLow(s[2]) THEN
      Utf8OfCodePoint(65536 + (u - 55296) * 1024 + (s[2] - 56320))
        \o TextEncode(SubSeq(s, 3, Len(s)))
    ELSE IF IsHigh(u) \/ IsLow(u) THEN
      Utf8OfCodePoint(Replacement) \o TextEncode(Tail(s))
    ELSE Utf8OfCodePoint(u) \o TextEncode(Tail(s))

(***************************************************************************)
(* TextDecoder.prototype.decode of `new TextDecoder()`: UTF-8, fatal =     *)
(* false (malformed input becomes U+FFFD), ignoreBOM = false (a leading    *)
(* EF BB BF is consumed and does not appear in the output).                *)
(***************************************************************************)
IsCont(b) == b >= 128 /\ b <= 191

CodeUnitsOfCodePoint(cp) ==
  IF cp < 65536 THEN <<cp>>
  ELSE <<55296 + ((cp - 65536) \div 1024), 56320 + ((cp - 65536) % 1024)>>

RECURSIVE Utf8Decode(_)
Utf8Decode(b) ==
  IF b = <<>> THEN <<>>
  ELSE LET b1 == b[1]
           n  == Len(b)
           rest(k) == Utf8Decode(SubSeq(b, k + 1, n))
       IN
    IF b1 < 128 THEN <<b1>> \o rest(1)
    ELSE IF b1 >= 194 /\ b1 <= 223 /\ n >= 2 /\ IsCont(b[2]) THEN
      <<(b1 - 192) * 64 + (b[2] - 128)>> \o rest(2)
    ELSE IF b1 >= 224 /\ b1 <= 239 /\ n >= 3 /\ IsCont(b[2]) /\ IsCont(b[3])
            /\ (b1 = 224 => b[2] >= 160) /\ (b1 = 237 => b[2] <= 159) THEN
      <<(b1 - 224) * 4096 + (b[2] - 128) * 64 + (b[3] - 128)>> \o rest(3)
    ELSE IF b1 >= 240 /\ b1 <= 244 /\ n >= 4
            /\ IsCont(b[2]) /\ IsCont(b[3]) /\ IsCont(b[4])
            /\ (b1 = 240 => b[2] >= 144) /\ (b1 = 244 => b[2] <= 143) THEN
      CodeUnitsOfCodePoint((b1 - 240) * 262144 + (b[2] - 128) * 4096
                           + (b[3] - 128) * 64 + (b[4] - 128)) \o rest(4)
    ELSE <<Replacement>> \o rest(1)

TextDecode(b) ==
  IF Len(b) >= 3 /\ b[1] = 239 /\ b[2] = 187 /\ b[3] = 191
  THEN Utf8Decode(SubSeq(b, 4, Len(b)))
  ELSE Utf8Decode(b)

(***************************************************************************)
(* Uint8Array.prototype.toBase64(options): alphabet "base64" unless the    *)
(* options say "base64url"; omitPadding is false, so "=" padding is kept   *)
(* in both alphabets.                                                      *)
(***************************************************************************)
AlphabetOf(options) ==
  IF options = Undefined THEN "base64" ELSE options.alphabet

PadChar == 61    \* "="

Base64Char(v, alphabet) ==
  IF v < 26 THEN 65 + v
  ELSE IF v < 52 THEN 97 + (v - 26)
  ELSE IF v < 62 THEN 48 + (v - 52)
  ELSE IF v = 62 THEN (IF alphabet = "base64url" THEN 45 ELSE 43)
  ELSE (IF alphabet = "base64url" THEN 95 ELSE 47)

RECURSIVE toBase64In(_, _)
toBase64In(b, alphabet) ==
  LET n == Len(b) IN
  IF n = 0 THEN <<>>
  ELSE IF n = 1 THEN
    <<Base64Char(b[1] \div 4, alphabet), Base64Char((b[1] % 4) * 16, alphabet),
      PadChar, PadChar>>
  ELSE IF n = 2 THEN
    <<Base64Char(b[1] \div 4, alphabet),
      Base64Char((b[1] % 4) * 16 + (b[2] \div 16), alphabet),
      Base64Char((b[2] % 16) * 4, alphabet), PadChar>>
  ELSE
    <<Base64Char(b[1] \div 4, alphabet),
      Base64Char((b[1] % 4) * 16 + (b[2] \div 16), alphabet),
      Base64Char((b[2] % 16) * 4 + (b[3] \div 64), alphabet),
      Base64Char(b[3] % 64, alphabet)>>
    \o toBase64In(SubSeq(b, 4, n), alphabet)

\* A variant that omits the padding (omitPadding: true).
toBase64NoPadding(b, options) ==
  SelectSeq(toBase64In(b, AlphabetOf(options)), LAMBDA c : c # PadChar)

toBase64(b, options) == toBase64In(b, AlphabetOf(options))

(***************************************************************************)
(* Uint8Array.fromBase64(string, options) with lastChunkHandling "loose":  *)
(* ASCII whitespace is skipped, in "base64url" the characters "+" and "/"  *)
(* are rejected and "-" "_" stand for 62 and 63, in "base64" the           *)
(* characters "-" and "_" are outside the alphabet; nothing may follow the *)
(* padding; a final chunk of one character is an error.  Errors are        *)
(* SyntaxError.                                                            *)
(***************************************************************************)
AsciiWhitespace == {9, 10, 12, 13, 32}

\* Value 0..63 of a character of the standard alphabet, -1 for any other.
Base64Value(c) ==
  IF c >= 65 /\ c <= 90 THEN c - 65
  ELSE IF c >= 97 /\ c <= 122 THEN c - 97 + 26
  ELSE IF c >= 48 /\ c <= 57 THEN c - 48 + 52
  ELSE IF c = 43 THEN 62
  ELSE IF c = 47 THEN 63
  ELSE -1

\* The character as the decoder of `alphabet` reads it, -1 if it rejects it.
Base64ValueIn(c, alphabet) ==
  IF alphabet = "base64url" THEN
    IF c = 43 \/ c = 47 THEN -1
    ELSE IF c = 45 THEN 62
    ELSE IF c = 95 THEN 63
    ELSE Base64Value(c)
  ELSE Base64Value(c)

RECURSIVE SkipAsciiWhitespace(_, _)
SkipAsciiWhitespace(s, index) ==
  IF index <= Len(s) /\ s[index] \in AsciiWhitespace
  THEN SkipAsciiWhitespace(s, index + 1)
  ELSE index

\* Bytes of a chunk of 2, 3 or 4 six-bit values (extra bits are not checked).
DecodeBase64Chunk(chunk) ==
  LET v(i) == IF i <= Len(chunk) THEN chunk[i] ELSE 0
      b1 == v(1) * 4 + (v(2) \div 16)
      b2 == (v(2) % 16) * 16 + (v(3) \div 4)
      b3 == (v(3) % 4) * 64 + v(4)
  IN IF Len(chunk) = 2 THEN <<b1>>
     ELSE IF Len(chunk) = 3 THEN <<b1, b2>>
     ELSE <<b1, b2, b3>>

RECURSIVE FromBase64Loop(_, _, _, _, _)
FromBase64Loop(s, alphabet, index0, chunk, bytes) ==
  LET index == SkipAsciiWhitespace(s, index0) IN
  IF index > Len(s) THEN
    IF Len(chunk) = 0 THEN Ok(bytes)
    ELSE IF Len(chunk) = 1 THEN Err("SyntaxError")
    ELSE Ok(bytes \o DecodeBase64Chunk(chunk))
  ELSE IF s[index] = PadChar THEN
    IF Len(chunk) < 2 THEN Err("SyntaxError")
    ELSE
      LET index2 == SkipAsciiWhitespace(s, index + 1)
          index3 == IF Len(chunk) = 2 /\ index2 <= Len(s) /\ s[index2] = PadChar
                    THEN SkipAsciiWhitespace(s, index2 + 1)
                    ELSE index2
      IN IF Len(chunk) = 2 /\ index2 > Len(s) THEN Err("SyntaxError")
         ELSE IF index3 <= Len(s) THEN Err("SyntaxError")
         ELSE Ok(bytes \o DecodeBase64Chunk(chunk))
  ELSE
    LET v == Base64ValueIn(s[index], alphabet) IN
    IF v < 0 THEN Err("SyntaxError")
    ELSE IF Len(chunk) = 3
      THEN FromBase64Loop(s, alphabet, index + 1, <<>>,
                          bytes \o DecodeBase64Chunk(Append(chunk, v)))
      ELSE FromBase64Loop(s, alphabet, index + 1, Append(chunk, v), bytes)

fromBase64(s, options) == FromBase64Loop(s, AlphabetOf(options), 1, <<>>, <<>>)


(***************************************************************************)
(* crypto.subtle.digest("SHA-256", bytes): 32 bytes.  The digest is        *)
(* idealised as collision-free on the short inputs of the model: the input *)
(* bytes, zero padding, and the input length in the last byte.             *)
(***************************************************************************)
SubtleDigest(bytes) ==
  [i \in 1..digestBytesLength |->
     IF i <= Len(bytes) THEN bytes[i]
     ELSE IF i = digestBytesLength THEN Len(bytes)
     ELSE 0]

(***************************************************************************)
(* crypto.subtle.importKey("raw", keyData, "AES-GCM", extractable,         *)
(* usages): the CryptoKey; `raw` is its internal key material.             *)
(***************************************************************************)
SubtleImportKey(keyData, algorithm, extractable, usages) ==
  [type |-> "secret", algorithm |-> algorithm, length |-> 8 * Len(keyData),
   extractable |-> extractable, usages |-> usages, raw |-> keyData]

(***************************************************************************)
(* AES-GCM, as an authenticated cipher over bytes: the ciphertext has the  *)
(* length of the plaintext and is followed by a 16-byte tag that depends   *)
(* on the key, the nonce and every ciphertext byte; decrypt recomputes the *)
(* tag and fails with OperationError unless it matches.                    *)
(***************************************************************************)
\* Sum of the bytes of s at the positions j, j + 16, j + 32, ...
RECURSIVE Fold(_, _)
Fold(s, j) == IF j > Len(s) THEN 0 ELSE s[j] + Fold(s, j + tagBytesLength)

AesGcmPad(raw, iv, i) ==
  (raw[((i - 1) % Len(raw)) + 1]
   + (IF Len(iv) = 0 THEN 0 ELSE iv[((i - 1) % Len(iv)) + 1]) + i) % 256

AesGcmTag(raw, iv, ct) ==
  [j \in 1..tagBytesLength |->
     (raw[j] + 3 * raw[j + tagBytesLength] + 5 * Fold(iv, j) + 7 * Fold(ct, j)
      + 11 * Len(iv) + 13 * Len(ct)) % 256]

SubtleEncrypt(algorithm, key, data) ==
  IF key = Undefined THEN Err("TypeError")
  ELSE IF algorithm.name # key.algorithm \/ "encrypt" \notin key.usages
  THEN Err("InvalidAccessError")
  ELSE LET ct == [i \in 1..Len(data) |->
                    (data[i] + AesGcmPad(key.raw, algorithm.iv, i)) % 256]
       IN Ok(ct \o AesGcmTag(key.raw, algorithm.iv, ct))

SubtleDecrypt(algorithm, key, data) ==
  IF key = Undefined THEN Err("TypeError")
  ELSE IF algorithm.name # key.algorithm \/ "decrypt" \notin key.usages
  THEN Err("InvalidAccessError")
  ELSE IF Len(data) < tagBytesLength THEN Err("OperationError")
  ELSE LET ct  == SubSeq(data, 1, Len(data) - tagBytesLength)
           tag == SubSeq(data, Len(data) - tagBytesLength + 1, Len(data))
       IN IF tag # AesGcmTag(key.raw, algorithm.iv, ct) THEN Err("OperationError")
          ELSE Ok([i \in 1..Len(ct) |->
                     (ct[i] + 256 - AesGcmPad(key.raw, algorithm.iv, i)) % 256])

(***************************************************************************)
(* crypto.getRandomValues(new Uint8Array(n)): the values the random source *)
(* can deliver.  The source is cryptographically secure: a value it has    *)
(* delivered (variable rng) is not delivered again.                        *)
(***************************************************************************)
RandomValue(k, n) == [i \in 1..n |-> ((k - 1) * 255) % 256]
RandomValues(n) == {RandomValue(k, n) : k \in 1..MaxNonces}

(***************************************************************************)
(* createSymmetricKeyFromText(key, extractable): resolves to the CryptoKey *)
(* or rejects with TypeError when `key` cannot be encoded.                 *)
(***************************************************************************)
\* A faulty variant: the extractable argument is ignored.
createSymmetricKeyFromTextNonExtractable(key, extractable) ==
  IF key = NotText THEN Err("TypeError")
  ELSE Ok(SubtleImportKey(SubtleDigest(TextEncode(key)), encryptionAlgorithm,
                          FALSE, keyUsages))

createSymmetricKeyFromText(key, extractable) ==
  IF key = NotText THEN Err("TypeError")
  ELSE Ok(SubtleImportKey(SubtleDigest(TextEncode(key)), encryptionAlgorithm,
                          extractable, keyUsages))

(***************************************************************************)
(* encryptTextSymmetrically(key, text, urlSafe); iv is the value that      *)
(* crypto.getRandomValues delivered to this call.                          *)
(***************************************************************************)
\* A faulty variant: the nonce buffer is allocated but never filled from the
\* random source, so every call encrypts under the all-zero nonce.
encryptTextSymmetricallyUnfilledIv(key, text, urlSafe, iv) ==
  LET options == IF urlSafe THEN base64UrlOptions ELSE Undefined
      zeroIv  == [i \in 1..ivBytesLength |-> 0]
      sealed  == SubtleEncrypt([name |-> encryptionAlgorithm, iv |-> zeroIv],
                               key, TextEncode(text))
  IN IF sealed.ok
     THEN Ok(toBase64(zeroIv, options) \o toBase64(sealed.val, options))
     ELSE sealed

\* A faulty variant: the two encoded parts are joined in the wrong order.
encryptTextSymmetricallySwapped(key, text, urlSafe, iv) ==
  LET options == IF urlSafe THEN base64UrlOptions ELSE Undefined
      sealed  == SubtleEncrypt([name |-> encryptionAlgorithm, iv |-> iv], key,
                               TextEncode(text))
  IN IF sealed.ok
     THEN Ok(toBase64(sealed.val, options) \o toBase64(iv, options))
     ELSE sealed

\* A faulty variant: the envelope carries a nonce other than the one given
\* to crypto.subtle.encrypt.
encryptTextSymmetricallyOtherPrefix(key, text, urlSafe, iv) ==
  LET options == IF urlSafe THEN base64UrlOptions ELSE Undefined
      prefix  == [i \in 1..ivBytesLength |-> (iv[i] + 1) % 256]
      sealed  == SubtleEncrypt([name |-> encryptionAlgorithm, iv |-> iv], key,
                               TextEncode(text))
  IN IF sealed.ok
     THEN Ok(toBase64(prefix, options) \o toBase64(sealed.val, options))
     ELSE sealed

encryptTextSymmetrically(key, text, urlSafe, iv) ==
  LET options == IF urlSafe THEN base64UrlOptions ELSE Undefined
      sealed  == SubtleEncrypt([name |-> encryptionAlgorithm, iv |-> iv], key,
                               TextEncode(text))
  IN IF sealed.ok
     THEN Ok(toBase64(iv, options) \o toBase64(sealed.val, options))
     ELSE sealed

\* The two functions as called with a list of optional arguments
\* (extractable = false, urlSafe = true).
createSymmetricKeyFromTextArgs(key, rest) ==
  createSymmetricKeyFromText(key, OptArg(rest, 1, FALSE))

encryptTextSymmetricallyArgs(key, text, rest, iv) ==
  encryptTextSymmetrically(key, text, OptArg(rest, 1, TRUE), iv)

\* A faulty variant: the pattern matches "-" only.
base64UrlRegexTestHyphenOnly(s) == \E i \in 1..Len(s) : s[i] = 45

(***************************************************************************)
(* base64UrlRegex = /-|_/ and decryptTextSymmetrically(key, ciphertext),   *)
(* which picks the alphabet from the ciphertext.                           *)
(***************************************************************************)
base64UrlRegexTest(s) == \E i \in 1..Len(s) : s[i] = 45 \/ s[i] = 95

\* A variant that checks the length of the decoded envelope first.
DecryptDataChecked(key, data) ==
  IF Len(data) < ivBytesLength THEN Err("SyntaxError")
  ELSE LET opened == SubtleDecrypt([name |-> encryptionAlgorithm,
                                    iv |-> SubSeq(data, 1, ivBytesLength)],
                                   key, SubSeq(data, ivBytesLength + 1, Len(data)))
       IN IF opened.ok THEN Ok(TextDecode(opened.val)) ELSE opened

\* The part of both decrypt variants after Uint8Array.fromBase64.
DecryptData(key, data) ==
  LET n      == Len(data)
      ivEnd  == IF n < ivBytesLength THEN n ELSE ivBytesLength
      opened == SubtleDecrypt([name |-> encryptionAlgorithm,
                               iv |-> SubSeq(data, 1, ivEnd)],
                              key, SubSeq(data, ivBytesLength + 1, n))
  IN IF opened.ok THEN Ok(TextDecode(opened.val)) ELSE opened

decryptTextSymmetrically(key, ciphertext) ==
  LET data == fromBase64(ciphertext,
                         IF base64UrlRegexTest(ciphertext)
                         THEN base64UrlOptions ELSE Undefined)
  IN IF data.ok THEN DecryptData(key, data.val) ELSE data

(***************************************************************************)
(* The variant of decryptTextSymmetrically with an explicit alphabet flag  *)
(* (key, encryptedText, urlSafe = true).                                   *)
(***************************************************************************)
decryptTextSymmetricallyExplicit(key, encryptedText, urlSafe) ==
  LET data == fromBase64(encryptedText,
                         IF urlSafe THEN base64UrlOptions ELSE Undefined)
  IN IF data.ok THEN DecryptData(key, data.val) ELSE data


(***************************************************************************)
(* State.                                                                  *)
(*                                                                         *)
(* A program that uses the functional API derives keys, encrypts a text    *)
(* under them and finally decrypts one of the envelopes:                   *)
(*   keys  the outcomes of the createSymmetricKeyFromText calls, in call   *)
(*         order (the position is the identity of the CryptoKey object),   *)
(*         each with the passphrase given;                                 *)
(*   rng   the values crypto.getRandomValues has delivered;                *)
(*   encs  the completed encryptTextSymmetrically calls;                   *)
(*   dec   the decrypt call and its outcome.                               *)
(*                                                                         *)
(* A SingleCryptText instance and the method calls in flight on it:        *)
(*   inst      the private fields #key and #keyPromise (0 = undefined,     *)
(*             otherwise the position of the promise in promises), with    *)
(*             the constructor's arguments;                                *)
(*   promises  the promises returned by the createSymmetricKeyFromText     *)
(*             calls the instance made, in call order;                     *)
(*   calls     the getKey/encrypt/decrypt calls issued, each with the      *)
(*             point where it is suspended.                                *)
(***************************************************************************)
VARIABLES keys, rng, encs, dec, inst, promises, calls

vars == <<keys, rng, encs, dec, inst, promises, calls>>
fnVars == <<keys, rng, encs, dec>>
instVars == <<inst, promises, calls>>

NoCall == [fn |-> "none", key |-> 0, enc |-> 0, urlSafe |-> FALSE,
           input |-> "none", arg |-> <<>>, res |-> Err("")]

NoInstance == [pass |-> <<>>, extractable |-> FALSE, rest |-> <<>>,
               key |-> Undefined, keyPromise |-> 0, keyWrites |-> 0]

FnInit ==
  /\ keys = <<>>
  /\ rng = {}
  /\ encs = <<>>
  /\ dec = NoCall
  /\ inst = NoInstance
  /\ promises = <<>>
  /\ calls = <<>>

\* await createSymmetricKeyFromText(pass, extractable)
CreateKey(pass, extractable) ==
  /\ dec = NoCall
  /\ Len(keys) < MaxKeys
  /\ keys' = Append(keys, [pass |-> pass,
                           res |-> createSymmetricKeyFromText(pass, extractable)])
  /\ UNCHANGED <<rng, encs, dec, instVars>>

\* await encryptTextSymmetrically(<key of keys[k]>, text, urlSafe)
Encrypt(k, text, urlSafe) ==
  /\ dec = NoCall
  /\ k \in 1..Len(keys)
  /\ keys[k].res.ok
  /\ encs # <<>> => text = encs[1].text
  /\ \E iv \in RandomValues(ivBytesLength) \ rng :
       /\ rng' = rng \cup {iv}
       /\ encs' = Append(encs,
            [key |-> k, text |-> text, urlSafe |-> urlSafe, iv |-> iv,
             res |-> encryptTextSymmetrically(keys[k].res.val, text, urlSafe, iv)])
  /\ UNCHANGED <<keys, dec, instVars>>

\* await decryptTextSymmetrically(<key of keys[k]>, <envelope of encs[e]>)
Decrypt(k, e) ==
  /\ dec = NoCall
  /\ k \in 1..Len(keys)
  /\ keys[k].res.ok
  /\ e \in 1..Len(encs)
  /\ encs[e].res.ok
  /\ dec' = [NoCall EXCEPT !.fn = "decryptTextSymmetrically",
                           !.key = k, !.enc = e,
                           !.input = "envelope", !.arg = encs[e].res.val,
                           !.res = decryptTextSymmetrically(keys[k].res.val,
                                                            encs[e].res.val)]
  /\ UNCHANGED <<keys, rng, encs, instVars>>

\* await decryptTextSymmetrically(<key of keys[k]>, <envelope of encs[e]>,
\* urlSafe) of the variant with the explicit alphabet flag
DecryptExplicit(k, e, urlSafe) ==
  /\ dec = NoCall
  /\ k \in 1..Len(keys)
  /\ keys[k].res.ok
  /\ e \in 1..Len(encs)
  /\ encs[e].res.ok
  /\ dec' = [NoCall EXCEPT !.fn = "decryptTextSymmetricallyExplicit",
                           !.key = k, !.enc = e, !.urlSafe = urlSafe,
                           !.input = "envelope", !.arg = encs[e].res.val,
                           !.res = decryptTextSymmetricallyExplicit(
                                     keys[k].res.val, encs[e].res.val, urlSafe)]
  /\ UNCHANGED <<keys, rng, encs, instVars>>

FnNext ==
  \/ \E pass \in PassInputs, extractable \in BOOLEAN : CreateKey(pass, extractable)
  \/ \E k \in 1..MaxKeys, text \in Texts, urlSafe \in BOOLEAN :
       Encrypt(k, text, urlSafe)
  \/ \E k \in 1..MaxKeys, e \in 1..MaxNonces : Decrypt(k, e)
  \/ \E k \in 1..MaxKeys, e \in 1..MaxNonces, urlSafe \in BOOLEAN :
       DecryptExplicit(k, e, urlSafe)

SpecFn == FnInit /\ [][FnNext]_vars

(***************************************************************************)
(* decryptTextSymmetrically on ciphertext arguments that no encrypt call   *)
(* returned: an envelope with one byte changed, an envelope with a         *)
(* character added, and strings made from scratch.  In a behaviour every   *)
(* key and every envelope is the latest one in some state, so these calls  *)
(* take the latest.                                                        *)
(***************************************************************************)
\* The bytes an envelope decodes to, with the byte at pos changed by delta.
Tampered(e, pos, delta) ==
  LET options == IF encs[e].urlSafe THEN base64UrlOptions ELSE Undefined
      bytes   == fromBase64(encs[e].res.val, options).val
  IN toBase64([bytes EXCEPT ![pos] = (@ + delta) % 256], options)

\* Where a byte is changed: the first nonce byte, the first byte after the
\* nonce (of the ciphertext, or of the tag when the plaintext is empty), the
\* last byte of the tag.
TamperParts == {"nonce", "ciphertext", "tag"}
TamperPosition(e, part) ==
  IF part = "nonce" THEN 1
  ELSE IF part = "ciphertext" THEN ivBytesLength + 1
  ELSE ivBytesLength + Len(TextEncode(encs[e].text)) + tagBytesLength

\* await decryptTextSymmetrically(<key of the envelope>, <tampered envelope>)
DecryptTampered(part, delta) ==
  /\ dec = NoCall
  /\ encs # <<>>
  /\ encs[Len(encs)].res.ok
  /\ LET e == Len(encs)
         k == encs[e].key
         s == Tampered(e, TamperPosition(e, part), delta)
     IN dec' = [NoCall EXCEPT !.fn = "decryptTextSymmetrically",
                              !.key = k, !.enc = e,
                              !.input = "tampered", !.arg = s,
                              !.res = decryptTextSymmetrically(keys[k].res.val, s)]
  /\ UNCHANGED <<keys, rng, encs, instVars>>

\* Strings made from scratch: "", "AAAA" (3 bytes), "-_-_" (3 bytes),
\* sixteen "A" (12 bytes), "+-AA" (both alphabets mixed), "AA!A".
Strings ==
  {<<>>, <<65, 65, 65, 65>>, <<45, 95, 45, 95>>, [i \in 1..16 |-> 65],
   <<43, 45, 65, 65>>, <<65, 65, 33, 65>>}

\* An envelope with a character added: a space after its first character, a
\* line feed at its end, "!" at its end.
Edits == {"space", "lineFeed", "bang"}
Edited(env, edit) ==
  IF edit = "space" THEN <<env[1], 32>> \o Tail(env)
  ELSE IF edit = "lineFeed" THEN env \o <<10>>
  ELSE env \o <<33>>

\* await decryptTextSymmetrically(<latest key>, s)
DecryptString(s) ==
  /\ dec = NoCall
  /\ keys # <<>>
  /\ keys[Len(keys)].res.ok
  /\ s \in Strings
  /\ dec' = [NoCall EXCEPT !.fn = "decryptTextSymmetrically",
                           !.key = Len(keys),
                           !.input = "string", !.arg = s,
                           !.res = decryptTextSymmetrically(
                                     keys[Len(keys)].res.val, s)]
  /\ UNCHANGED <<keys, rng, encs, instVars>>

\* await decryptTextSymmetrically(<key of the envelope>, <edited envelope>)
DecryptEdited(edit) ==
  /\ dec = NoCall
  /\ encs # <<>>
  /\ encs[Len(encs)].res.ok
  /\ LET e == Len(encs)
         k == encs[e].key
         s == Edited(encs[e].res.val, edit)
     IN dec' = [NoCall EXCEPT !.fn = "decryptTextSymmetrically",
                              !.key = k, !.enc = e,
                              !.input = "edited", !.arg = s,
                              !.res = decryptTextSymmetrically(keys[k].res.val, s)]
  /\ UNCHANGED <<keys, rng, encs, instVars>>

InputNext ==
  \/ \E pass \in PassInputs : CreateKey(pass, FALSE)
  \/ \E k \in 1..MaxKeys, text \in Texts, urlSafe \in BOOLEAN :
       Encrypt(k, text, urlSafe)
  \/ \E k \in 1..MaxKeys, e \in 1..MaxNonces : Decrypt(k, e)
  \/ \E part \in TamperParts, delta \in {1, 128} : DecryptTampered(part, delta)
  \/ \E s \in Strings : DecryptString(s)
  \/ \E edit \in Edits : DecryptEdited(edit)

SpecInput == FnInit /\ [][InputNext]_vars

(***************************************************************************)
(* class SingleCryptText.                                                  *)
(***************************************************************************)
\* Plaintexts given to instance.encrypt.
InstTexts == {<<97>>, <<ByteOrderMark, 97>>}

\* The promise an async createSymmetricKeyFromText(pass, extractable) call
\* returns: the call runs up to its first await, so it is already rejected
\* when textEncoder.encode throws, and pending otherwise.
NewPromise(pass, extractable) ==
  IF createSymmetricKeyFromText(pass, extractable).ok
  THEN [state |-> "pending", res |-> Err(""), pass |-> pass,
        extractable |-> extractable]
  ELSE [state |-> "rejected",
        res |-> createSymmetricKeyFromText(pass, extractable),
        pass |-> pass, extractable |-> extractable]

\* A faulty variant: the promise of the derivation is not kept.
constructorNoPromise(key, rest) ==
  [pass |-> key, extractable |-> OptArg(rest, 1, FALSE), rest |-> rest,
   key |-> Undefined, keyPromise |-> 0, keyWrites |-> 0]

\* constructor(key, extractable = false), called with the list `rest` of
\* optional arguments: #keyPromise is the promise of the derivation it starts
\* (the first of promises), #key stays undefined.  keyWrites counts the
\* executions of the assignment to #key.
constructor(key, rest) ==
  [pass |-> key, extractable |-> OptArg(rest, 1, FALSE), rest |-> rest,
   key |-> Undefined, keyPromise |-> 1, keyWrites |-> 0]

\* A faulty variant: the method's alphabet defaults to base64.
encryptDefaultBase64(key, text, rest, iv) ==
  encryptTextSymmetrically(key, text, OptArg(rest, 1, FALSE), iv)

\* encrypt(text, urlSafe = true) and decrypt(ciphertext) once getKey() has
\* returned `key`.
encrypt(key, text, rest, iv) ==
  encryptTextSymmetrically(key, text, OptArg(rest, 1, TRUE), iv)

decrypt(key, ciphertext) == decryptTextSymmetrically(key, ciphertext)

\* A faulty variant: a call that finds no key yet starts a derivation of its
\* own instead of awaiting the one the constructor started.
getKeyEnterRederive(self) ==
  IF self.key = Undefined
  THEN [suspend |-> TRUE, awaits |-> self.keyPromise, derive |-> TRUE]
  ELSE [suspend |-> FALSE, awaits |-> 0, derive |-> FALSE]

\* getKey() up to its await: whether it suspends, and on which promise.
\* (derive: whether it starts a derivation of its own; the code never does.)
getKeyEnter(self) ==
  IF self.key = Undefined /\ self.keyPromise # 0
  THEN [suspend |-> TRUE, awaits |-> self.keyPromise, derive |-> FALSE]
  ELSE [suspend |-> FALSE, awaits |-> 0, derive |-> FALSE]

\* A variant that writes only when no key is cached yet.
getKeyResumeGuarded(self, value) ==
  IF self.key = Undefined
  THEN [self EXCEPT !.key = value, !.keyPromise = 0, !.keyWrites = @ + 1]
  ELSE self

\* A faulty variant: the pending promise is not discarded.
getKeyResumeKeepsPromise(self, value) ==
  [self EXCEPT !.key = value, !.keyWrites = @ + 1]

\* A faulty variant: the promise is discarded but the key is not stored.
getKeyResumeNoStore(self, value) ==
  [self EXCEPT !.keyPromise = 0]

\* A faulty variant: a call that resumes after the promise slot was emptied
\* stores what the slot then holds, undefined.
getKeyResumeRereads(self, value) ==
  [self EXCEPT !.key = IF self.keyPromise = 0 THEN Undefined ELSE value,
               !.keyPromise = 0, !.keyWrites = @ + 1]

\* getKey() after its await resolved to `value`: the two assignments.
getKeyResume(self, value) ==
  [self EXCEPT !.key = value, !.keyPromise = 0, !.keyWrites = @ + 1]

\* Envelopes made elsewhere with the functional API, called without optional
\* arguments, with their provenance.
\* Each of them comes from a call of its own, whose nonce the random source
\* delivered to that call and to no other: one value per call, none of them
\* among the values the instance's calls draw.
ForeignIv(pass, text) ==
  [i \in 1..ivBytesLength |-> (pass[1] + Len(text)) % 256]
ForeignKey(pass) == createSymmetricKeyFromTextArgs(pass, <<>>).val
ForeignEnvelope(pass, text) ==
  encryptTextSymmetricallyArgs(ForeignKey(pass), text, <<>>,
                               ForeignIv(pass, text)).val

Init ==
  /\ keys = <<>>
  /\ rng = {}
  /\ encs = <<>>
  /\ dec = NoCall
  /\ calls = <<>>
  /\ \E pass \in PassInputs, rest \in OptBoolean :
       /\ inst = constructor(pass, rest)
       /\ promises = <<NewPromise(pass, inst.extractable)>>

\* The derivation behind promise p completes.
Settle(p) ==
  /\ p \in 1..Len(promises)
  /\ promises[p].state = "pending"
  /\ promises' = [promises EXCEPT ![p].state = "fulfilled",
                    ![p].res = createSymmetricKeyFromText(promises[p].pass,
                                                          promises[p].extractable)]
  /\ UNCHANGED <<fnVars, inst, calls>>

\* A method is called: it runs getKey() up to the await, or through its return.
Issue(op, arg, rest, src) ==
  /\ Len(calls) < MaxCalls
  /\ LET e      == getKeyEnter(inst)
         awaits == IF e.derive THEN Len(promises) + 1 ELSE e.awaits
     IN
       /\ promises' = IF e.derive
                      THEN Append(promises, NewPromise(inst.pass, inst.extractable))
                      ELSE promises
       /\ calls' = Append(calls,
            [op |-> op, arg |-> arg, rest |-> rest, src |-> src,
             pc |-> IF e.suspend \/ e.derive THEN "awaitPromise"
                    ELSE IF op = "getKey" THEN "done" ELSE "awaitGetKey",
             awaits |-> awaits,
             key |-> inst.key,
             iv |-> <<>>,
             res |-> IF ~(e.suspend \/ e.derive) /\ op = "getKey"
                     THEN Ok(inst.key) ELSE Err("")])
  /\ UNCHANGED <<fnVars, inst>>

\* Where a call's argument comes from: given by the caller, or an envelope
\* made by this instance or with the functional API from `text` under `key`,
\* derived from `pass`.
NoSrc == [by |-> "caller", pass |-> <<>>, text |-> <<>>, key |-> Undefined]

\* instance.getKey()
CallGetKey == Issue("getKey", <<>>, <<>>, NoSrc)

\* instance.encrypt(text) and instance.encrypt(text, urlSafe)
CallEncrypt(text, rest) ==
  /\ Cardinality({c \in 1..Len(calls) : calls[c].op = "encrypt"}) < MaxNonces
  /\ Issue("encrypt", text, rest, NoSrc)

\* instance.decrypt(<the envelope a completed instance.encrypt call returned>)
CallDecryptOwn(c) ==
  /\ c \in 1..Len(calls)
  /\ calls[c].op = "encrypt" /\ calls[c].pc = "done" /\ calls[c].res.ok
  /\ Issue("decrypt", calls[c].res.val, <<>>,
           [by |-> "instance", pass |-> inst.pass, text |-> calls[c].arg,
            key |-> calls[c].key])

\* instance.decrypt(<an envelope made with the functional API>)
CallDecryptForeign(pass, text) ==
  Issue("decrypt", ForeignEnvelope(pass, text), <<>>,
        [by |-> "function", pass |-> pass, text |-> text,
         key |-> ForeignKey(pass)])

\* A faulty variant: a rejected derivation is caught and getKey() goes on
\* with no key.
ResumeGetKeySwallowed(c) ==
  /\ c \in 1..Len(calls)
  /\ calls[c].pc = "awaitPromise"
  /\ promises[calls[c].awaits].state # "pending"
  /\ LET p == promises[calls[c].awaits] IN
       /\ inst' = IF p.state = "fulfilled" THEN getKeyResume(inst, p.res.val)
                  ELSE [inst EXCEPT !.keyPromise = 0]
       /\ calls' = [calls EXCEPT
            ![c].key = inst'.key,
            ![c].pc = IF calls[c].op = "getKey" THEN "done" ELSE "awaitGetKey",
            ![c].res = IF calls[c].op = "getKey" THEN Ok(inst'.key)
                       ELSE Err("")]
  /\ UNCHANGED <<fnVars, promises>>

\* getKey() of call c resumes from `await this.#keyPromise`.
ResumeGetKey(c) ==
  /\ c \in 1..Len(calls)
  /\ calls[c].pc = "awaitPromise"
  /\ promises[calls[c].awaits].state # "pending"
  /\ LET p == promises[calls[c].awaits] IN
       IF p.state = "fulfilled"
       THEN /\ inst' = getKeyResume(inst, p.res.val)
            /\ calls' = [calls EXCEPT
                 ![c].key = inst'.key,
                 ![c].pc = IF calls[c].op = "getKey" THEN "done" ELSE "awaitGetKey",
                 ![c].res = IF calls[c].op = "getKey" THEN Ok(inst'.key)
                            ELSE Err("")]
       ELSE /\ inst' = inst
            /\ calls' = [calls EXCEPT ![c].pc = "done", ![c].res = p.res]
  /\ UNCHANGED <<fnVars, promises>>

\* encrypt()/decrypt() of call c resumes from `await this.getKey()` and runs
\* the function of the functional API with the key it got.
Continue(c) ==
  /\ c \in 1..Len(calls)
  /\ calls[c].pc = "awaitGetKey"
  /\ IF calls[c].op = "encrypt"
     THEN \E iv \in RandomValues(ivBytesLength) \ rng :
            /\ rng' = rng \cup {iv}
            /\ calls' = [calls EXCEPT
                 ![c].pc = "done", ![c].iv = iv,
                 ![c].res = encrypt(calls[c].key, calls[c].arg,
                                    calls[c].rest, iv)]
     ELSE /\ rng' = rng
          /\ calls' = [calls EXCEPT
               ![c].pc = "done",
               ![c].res = decrypt(calls[c].key, calls[c].arg)]
  /\ UNCHANGED <<keys, encs, dec, inst, promises>>

Next ==
  \/ \E p \in 1..MaxCalls + 1 : Settle(p)
  \/ CallGetKey
  \/ \E text \in InstTexts, rest \in OptBoolean : CallEncrypt(text, rest)
  \/ \E c \in 1..MaxCalls : CallDecryptOwn(c)
  \/ \E pass \in Passphrases, text \in InstTexts : CallDecryptForeign(pass, text)
  \/ \E c \in 1..MaxCalls : ResumeGetKey(c)
  \/ \E c \in 1..MaxCalls : Continue(c)

Spec == Init /\ [][Next]_vars

(***************************************************************************)
(* The variant of class SingleCryptText whose alphabet is the public       *)
(* instance property urlSafe: constructor(text, urlSafe = true,            *)
(* extractable = false), encrypt(text), decrypt(encryptedText); getKey()   *)
(* is the same.  urlSafeWritten tells whether the property was assigned    *)
(* after construction.                                                     *)
(***************************************************************************)
constructorUrlSafe(text, rest) ==
  [pass |-> text, extractable |-> OptArg(rest, 2, FALSE), rest |-> rest,
   key |-> Undefined, keyPromise |-> 1, keyWrites |-> 0,
   urlSafe |-> OptArg(rest, 1, TRUE), urlSafeWritten |-> FALSE]

\* encrypt(text) and decrypt(encryptedText) once `await this.getKey()` has
\* given `key`: the arguments are evaluated from left to right, so
\* this.urlSafe is read from the instance as it is then.
encryptUrlSafe(self, key, text, iv) ==
  encryptTextSymmetrically(key, text, self.urlSafe, iv)

decryptUrlSafe(self, key, encryptedText) ==
  decryptTextSymmetricallyExplicit(key, encryptedText, self.urlSafe)

UrlSafeInit ==
  /\ keys = <<>>
  /\ rng = {}
  /\ encs = <<>>
  /\ dec = NoCall
  /\ calls = <<>>
  /\ \E text \in PassInputs, rest \in OptBoolean :
       /\ inst = constructorUrlSafe(text, rest)
       /\ promises = <<NewPromise(text, inst.extractable)>>

\* instance.urlSafe = v, by any code that holds the instance.
SetUrlSafe(v) ==
  /\ inst' = [inst EXCEPT !.urlSafe = v, !.urlSafeWritten = TRUE]
  /\ UNCHANGED <<fnVars, promises, calls>>

\* instance.encrypt(text); src.urlSafe keeps the value of the property at
\* the time of the call.
UrlSafeCallEncrypt(text) ==
  /\ Cardinality({c \in 1..Len(calls) : calls[c].op = "encrypt"}) < MaxNonces
  /\ Issue("encrypt", text, <<>>,
           [by |-> "caller", pass |-> <<>>, text |-> <<>>, key |-> Undefined,
            urlSafe |-> inst.urlSafe])

\* instance.decrypt(<the envelope a completed instance.encrypt call returned>)
UrlSafeCallDecryptOwn(c) ==
  /\ c \in 1..Len(calls)
  /\ calls[c].op = "encrypt" /\ calls[c].pc = "done" /\ calls[c].res.ok
  /\ Issue("decrypt", calls[c].res.val, <<>>,
           [by |-> "instance", pass |-> inst.pass, text |-> calls[c].arg,
            key |-> calls[c].key, urlSafe |-> inst.urlSafe])

\* encrypt()/decrypt() of call c resumes from `await this.getKey()`, reads
\* this.urlSafe and runs the function of the functional API; rest becomes
\* the alphabet argument it passes.
ContinueUrlSafe(c) ==
  /\ c \in 1..Len(calls)
  /\ calls[c].pc = "awaitGetKey"
  /\ IF calls[c].op = "encrypt"
     THEN \E iv \in RandomValues(ivBytesLength) \ rng :
            /\ rng' = rng \cup {iv}
            /\ calls' = [calls EXCEPT
                 ![c].pc = "done", ![c].iv = iv, ![c].rest = <<inst.urlSafe>>,
                 ![c].res = encryptUrlSafe(inst, calls[c].key, calls[c].arg, iv)]
     ELSE /\ rng' = rng
          /\ calls' = [calls EXCEPT
               ![c].pc = "done", ![c].rest = <<inst.urlSafe>>,
               ![c].res = decryptUrlSafe(inst, calls[c].key, calls[c].arg)]
  /\ UNCHANGED <<keys, encs, dec, inst, promises>>

UrlSafeNext ==
  \/ Settle(1)
  \/ \E v \in BOOLEAN : SetUrlSafe(v)
  \/ \E text \in InstTexts : UrlSafeCallEncrypt(text)
  \/ \E c \in 1..MaxCalls : UrlSafeCallDecryptOwn(c)
  \/ \E c \in 1..MaxCalls : ResumeGetKey(c)
  \/ \E c \in 1..MaxCalls : ContinueUrlSafe(c)

SpecUrlSafe == UrlSafeInit /\ [][UrlSafeNext]_vars

(***************************************************************************)
(* Properties of the functional API (specification SpecFn).                *)
(***************************************************************************)
DecAuto     == dec.fn = "decryptTextSymmetrically" /\ dec.input = "envelope"
DecExplicit == dec.fn = "decryptTextSymmetricallyExplicit"
DecEnc      == encs[dec.enc]
\* The passphrases given for the decrypting and for the encrypting key.
DecPass     == keys[dec.key].pass
EncPass     == keys[DecEnc.key].pass
\* The state in which the most recent call is an encrypt call or a derivation.
Encrypted   == dec = NoCall /\ encs # <<>>
LastEnc     == encs[Len(encs)]

\* C1 (as stated): decrypting with the key derived from P the envelope that
\* encrypting T (default alphabet) with the key derived from P produced
\* returns exactly T, for every passphrase P and every plaintext T.
C1_RoundTrip ==
  (DecAuto /\ dec.key = DecEnc.key /\ DecEnc.urlSafe)
    => dec.res = Ok(DecEnc.text)

\* What the code does instead: the plaintext comes back as the UTF-8 codec
\* round-trips it (a leading U+FEFF is dropped, an unpaired surrogate comes
\* back as U+FFFD).
RoundTripUpToCodec ==
  (DecAuto /\ DecPass = EncPass)
    => dec.res = Ok(TextDecode(TextEncode(DecEnc.text)))

\* C2 (as stated): two keys derived by two separate calls from the same
\* passphrase are interchangeable: an envelope encrypted under the first
\* decrypts under the second to the original plaintext.
C2_CrossInstance ==
  (DecAuto /\ dec.key # DecEnc.key /\ DecPass = EncPass)
    => dec.res = Ok(DecEnc.text)

\* C3 (as stated): for passphrases P1 # P2, decrypting under derive(P2) an
\* envelope encrypted under derive(P1) fails with the authentication error
\* (OperationError) and returns no plaintext.
C3_KeyMismatch ==
  (DecAuto /\ DecPass # EncPass)
    => ~dec.res.ok /\ dec.res.err = "OperationError"

\* What the code does instead: the decryption fails exactly when the UTF-8
\* encodings of the two passphrases differ.
KeyMismatchUpToCodec ==
  DecAuto => (dec.res.ok <=> TextEncode(DecPass) = TextEncode(EncPass))

\* C4 (as stated): for every key, plaintext and urlSafe in {true, false},
\* decryptTextSymmetrically (no alphabet flag) of the envelope that
\* encryptTextSymmetrically(key, text, urlSafe) produced returns text.
C4_AutoDetectRoundTrip ==
  \A urlSafe \in BOOLEAN :
    (DecAuto /\ DecPass = EncPass /\ DecEnc.urlSafe = urlSafe)
      => (dec.res.ok /\ dec.res.val = DecEnc.text)

\* C5 (as stated): with the explicit alphabet flag, encrypting with one
\* alphabet and decrypting with the other selected always fails (at decoding
\* or at authentication) and never returns a plaintext.
C5_AlphabetMismatchFails ==
  (DecExplicit /\ DecPass = EncPass /\ dec.urlSafe # DecEnc.urlSafe)
    => ~dec.res.ok

\* What the code does instead: the mismatched decryption fails, at decoding,
\* exactly when the envelope holds a character that differs between the
\* alphabets; otherwise it returns what the matching alphabet returns.
AlphabetMismatchUpToOverlap ==
  (DecExplicit /\ dec.urlSafe # DecEnc.urlSafe)
    => IF \E i \in 1..Len(DecEnc.res.val) : DecEnc.res.val[i] \in {43, 47, 45, 95}
       THEN dec.res = Err("SyntaxError")
       ELSE dec.res = decryptTextSymmetricallyExplicit(
                        keys[dec.key].res.val, DecEnc.res.val, DecEnc.urlSafe)

\* C8: any two encrypt calls with the same key and the same plaintext return
\* two different envelope strings, each call having drawn a nonce of its own.
C8_DistinctEnvelopes ==
  \A e1, e2 \in 1..Len(encs) :
    (e1 < e2 /\ keys[encs[e1].key].res.val = keys[encs[e2].key].res.val
             /\ encs[e1].text = encs[e2].text)
      => /\ encs[e1].res.ok /\ encs[e2].res.ok
         /\ encs[e1].res.val # encs[e2].res.val
         /\ encs[e1].iv # encs[e2].iv

C8_Witness ==
  /\ Len(encs) = 2
  /\ encs[1].key = encs[2].key
  /\ encs[1].text = encs[2].text
  /\ encs[1].urlSafe = encs[2].urlSafe
  /\ encs[1].res.ok /\ encs[2].res.ok

\* C10: the string encrypt returns is the base64 encoding, in the selected
\* alphabet, of the one byte sequence nonce (12 bytes) ++ ciphertext ++ tag
\* (16 bytes), and decoding it gives the nonce in the first 12 bytes and the
\* ciphertext with its tag in the rest, for every plaintext length.
C10_WireFormat ==
  Encrypted =>
    LET r       == LastEnc
        options == IF r.urlSafe THEN base64UrlOptions ELSE Undefined
        sealed  == SubtleEncrypt([name |-> encryptionAlgorithm, iv |-> r.iv],
                                 keys[r.key].res.val, TextEncode(r.text)).val
        data    == fromBase64(r.res.val, options)
    IN /\ r.res.ok
       /\ Len(r.iv) = 12
       /\ Len(sealed) = Len(TextEncode(r.text)) + 16
       /\ r.res.val = toBase64(r.iv \o sealed, options)
       /\ data.ok
       /\ SubSeq(data.val, 1, 12) = r.iv
       /\ SubSeq(data.val, 13, Len(data.val)) = sealed

\* Two envelopes, one in each alphabet, of a plaintext whose ciphertext with
\* tag is not a multiple of three bytes long (the envelope ends in padding).
C10_Witness ==
  /\ Len(encs) = 2
  /\ encs[1].urlSafe /\ ~encs[2].urlSafe
  /\ encs[1].res.ok /\ encs[2].res.ok
  /\ (Len(TextEncode(encs[1].text)) + 16) % 3 # 0
  /\ encs[2].res.val[Len(encs[2].res.val)] = PadChar

(***************************************************************************)
(* Properties of SingleCryptText (specification Spec).                     *)
(***************************************************************************)
CallIds == 1..Len(calls)
\* A key derived from the instance's passphrase by a call of its own.
OwnPassKey == createSymmetricKeyFromText(inst.pass, FALSE).val

\* C6: key derivation is invoked exactly once for an instance, at
\* construction, whatever calls are issued and however they interleave; every
\* call that waits for the key waits for that one derivation.
C6_SingleDerivation ==
  /\ Len(promises) = 1
  /\ promises[1].pass = inst.pass
  /\ inst.keyPromise \in {0, 1}
  /\ \A c \in CallIds : calls[c].pc = "awaitPromise" => calls[c].awaits = 1

\* Several calls are suspended at once on the derivation still in flight.
C6_Witness ==
  /\ Len(calls) >= 2
  /\ promises[1].state = "pending"
  /\ \A c \in CallIds : calls[c].pc = "awaitPromise"
  /\ \E c \in CallIds : calls[c].op = "encrypt"

\* C7 (as stated, its outcome part): an encrypt call issued while the
\* derivation was in flight, once the derivation has succeeded and the call
\* has completed, returned an envelope that decrypts to its own plaintext
\* under the key derived from the instance's passphrase.
C7_RaceOutcome ==
  \A c \in CallIds :
    (calls[c].op = "encrypt" /\ calls[c].awaits = 1 /\ calls[c].pc = "done"
       /\ promises[1].state = "fulfilled")
      => /\ calls[c].res.ok
         /\ calls[c].key # Undefined
         /\ decryptTextSymmetrically(OwnPassKey, calls[c].res.val)
              = Ok(calls[c].arg)

\* What the code does instead: the envelope decrypts to the plaintext as the
\* UTF-8 codec round-trips it.
RaceOutcomeUpToCodec ==
  \A c \in CallIds :
    (calls[c].op = "encrypt" /\ calls[c].awaits = 1 /\ calls[c].pc = "done"
       /\ promises[1].state = "fulfilled")
      => /\ calls[c].res.ok
         /\ calls[c].key # Undefined
         /\ decryptTextSymmetrically(OwnPassKey, calls[c].res.val)
              = Ok(TextDecode(TextEncode(calls[c].arg)))

\* C9 (as stated): the wrapper is equivalent to the functional API: what
\* instance.encrypt(T) returns decrypts to T with the functional API under a
\* key derived from the instance's passphrase, and instance.decrypt returns T
\* for an envelope of T made by this instance, or made with the functional
\* API (to which every instance delegates) under the same passphrase.
C9_WrapperEquivalence ==
  \A c \in CallIds :
    /\ (calls[c].op = "encrypt" /\ calls[c].pc = "done" /\ calls[c].res.ok)
         => decryptTextSymmetrically(OwnPassKey, calls[c].res.val).val
              = calls[c].arg
    /\ (calls[c].op = "decrypt" /\ calls[c].pc = "done"
          /\ calls[c].src.pass = inst.pass)
         => calls[c].res = Ok(calls[c].src.text)

(***************************************************************************)
(* Properties of decryption on arbitrary inputs (specification SpecInput). *)
(***************************************************************************)
DecCalled == dec.fn = "decryptTextSymmetrically"
\* The alphabet decryptTextSymmetrically decodes its argument with, and what
\* the argument decodes to.
DecAlphabet == IF base64UrlRegexTest(dec.arg) THEN "base64url" ELSE "base64"
DecDecoded  ==
  fromBase64(dec.arg, IF base64UrlRegexTest(dec.arg) THEN base64UrlOptions
                      ELSE Undefined)

\* C11 (as stated): decrypting under K an envelope that decodes to bytes
\* differing in one byte (of the nonce, the ciphertext or the tag) from
\* those of an envelope encrypt(K, T) produced fails with the authentication
\* error, and decrypt under K never returns a plaintext other than the one
\* that was encrypted.
C11_Integrity ==
  (DecCalled /\ dec.input \in {"envelope", "tampered"}
     /\ keys[dec.key].res.val = keys[DecEnc.key].res.val)
    => /\ dec.input = "tampered" => dec.res = Err("OperationError")
       /\ dec.res.ok => dec.res.val = DecEnc.text

\* What the code does: a changed byte is always rejected, and a plaintext
\* returned is the encrypted one as the UTF-8 codec round-trips it.
IntegrityUpToCodec ==
  (DecCalled /\ dec.input \in {"envelope", "tampered"}
     /\ keys[dec.key].res.val = keys[DecEnc.key].res.val)
    => /\ dec.input = "tampered" =>
            /\ DecDecoded.ok
            /\ DecDecoded.val # DecEnc.iv \o SubtleEncrypt(
                 [name |-> encryptionAlgorithm, iv |-> DecEnc.iv],
                 keys[DecEnc.key].res.val, TextEncode(DecEnc.text)).val
            /\ dec.res = Err("OperationError")
       /\ dec.res.ok => dec.res.val = TextDecode(TextEncode(DecEnc.text))

\* The argument decodes, to fewer than 12 bytes.
DecodesShort == DecCalled /\ DecDecoded.ok /\ Len(DecDecoded.val) < 12

\* C12 (as stated): decrypt of an envelope that decodes to fewer than 12
\* bytes (the empty string included) fails with the format error, not with
\* an authentication or crypto-operation error.
C12_TooShortIsFormatError ==
  DecodesShort => (~dec.res.ok /\ dec.res.err \in {"SyntaxError", "TypeError"})

\* C12 (amended): decrypt of an envelope that decodes to fewer than 12 bytes
\* (the empty string included) fails with OperationError, the error of the
\* AES-GCM decryption step and the same one a failed authentication gives;
\* the length of the decoded envelope is not checked before that step.
C12_TooShortIsOperationError ==
  DecodesShort => dec.res = Err("OperationError")

C12_Witness ==
  /\ dec.input = "string"
  /\ dec.arg = <<>>
  /\ DecodesShort
  /\ dec.res = Err("OperationError")

\* A character that is neither of the decoding alphabet nor the padding "=".
OutOfAlphabet(c) == c # PadChar /\ Base64ValueIn(c, DecAlphabet) < 0

\* C13 (as stated): decrypt of a string that holds a character outside the
\* alphabet used for decoding (base64url if the string holds "-" or "_",
\* base64 otherwise) fails with SyntaxError, before any decryption.
C13_OutOfAlphabetFails ==
  (DecCalled /\ \E i \in 1..Len(dec.arg) : OutOfAlphabet(dec.arg[i]))
    => dec.res = Err("SyntaxError")

\* What the code does: ASCII whitespace is skipped by the decoder; any other
\* character outside the alphabet gives SyntaxError.
OutOfAlphabetUpToWhitespace ==
  /\ (DecCalled /\ \E i \in 1..Len(dec.arg) :
        OutOfAlphabet(dec.arg[i]) /\ dec.arg[i] \notin AsciiWhitespace)
       => dec.res = Err("SyntaxError")
  /\ (DecCalled /\ dec.input = "edited" /\ dec.arg[Len(dec.arg)] # 33)
       => dec.res = Ok(TextDecode(TextEncode(DecEnc.text)))

(***************************************************************************)
(* Further properties of SingleCryptText (specification Spec).             *)
(***************************************************************************)
\* The characters of the base64url alphabet of RFC 4648, its padding
\* character "=" included.
Base64UrlCharset ==
  (65..90) \cup (97..122) \cup (48..57) \cup {45, 95} \cup {PadChar}
OnlyBase64Url(s) ==
  /\ s # <<>>
  /\ \A i \in 1..Len(s) : s[i] \in Base64UrlCharset /\ s[i] # 43 /\ s[i] # 47

\* C14: encrypt called without an alphabet argument, as the method of an
\* instance or as the free function, uses the URL-safe alphabet: the envelope
\* is the one the base64url alphabet gives, is not empty and holds only
\* characters of the base64url character set (no "+", no "/").
C14_DefaultAlphabet ==
  \A c \in CallIds :
    /\ (calls[c].op = "encrypt" /\ calls[c].rest = <<>> /\ calls[c].pc = "done"
          /\ calls[c].res.ok)
         => /\ OnlyBase64Url(calls[c].res.val)
            /\ calls[c].res = encryptTextSymmetrically(calls[c].key, calls[c].arg,
                                                       TRUE, calls[c].iv)
    /\ calls[c].src.by = "function"
         => /\ OnlyBase64Url(calls[c].arg)
            /\ calls[c].arg = encryptTextSymmetrically(
                 calls[c].src.key, calls[c].src.text, TRUE,
                 ForeignIv(calls[c].src.pass, calls[c].src.text)).val

\* A completed instance.encrypt(text) whose envelope holds "-" or "_".
C14_Witness ==
  \E c \in CallIds :
    /\ calls[c].op = "encrypt" /\ calls[c].rest = <<>> /\ calls[c].pc = "done"
    /\ calls[c].res.ok
    /\ base64UrlRegexTest(calls[c].res.val)

\* C16: a derived key has the extractable flag that was supplied (false when
\* it was omitted) and exactly the usages encrypt and decrypt; the key an
\* instance holds has the flag given to the constructor (false when omitted).
C16_KeyAttributes ==
  /\ \A p \in 1..Len(promises) :
       promises[p].state = "fulfilled"
         => /\ promises[p].res.val.extractable = promises[p].extractable
            /\ promises[p].res.val.usages = {"encrypt", "decrypt"}
  /\ \A c \in CallIds :
       calls[c].src.by = "function"
         => /\ calls[c].src.key.extractable = FALSE
            /\ calls[c].src.key.usages = {"encrypt", "decrypt"}
  /\ inst.key # Undefined
       => /\ inst.key.extractable
               = (IF inst.rest = <<>> THEN FALSE ELSE inst.rest[1])
          /\ inst.key.usages = {"encrypt", "decrypt"}

\* An instance constructed with extractable = true holds its key, and a key
\* was derived elsewhere without the flag.
C16_Witness ==
  /\ inst.rest = <<TRUE>>
  /\ inst.key # Undefined
  /\ inst.key.extractable
  /\ \E c \in CallIds : calls[c].src.by = "function"

Resumed ==
  {c \in CallIds : /\ calls[c].awaits # 0
                   /\ calls[c].pc # "awaitPromise"
                   /\ promises[calls[c].awaits].state = "fulfilled"}

\* C17 (as stated): on one instance the write that replaces the pending
\* derivation with the resolved key is performed exactly once, however many
\* calls started while the derivation was pending.
C17_SingleWrite ==
  /\ inst.keyWrites <= 1
  /\ inst.key # Undefined => inst.keyWrites = 1

\* C17 (amended): every call that was suspended on the pending derivation
\* performs the write when it resumes, so the write is performed once per
\* such call; all these writes store the same key, the result of the one
\* derivation, so the cache changes from pending to ready once, at the first
\* of them.
C17_WritePerSuspendedCall ==
  /\ inst.keyWrites = Cardinality(Resumed)
  /\ inst.keyWrites > 0 => (inst.key = promises[1].res.val /\ inst.keyPromise = 0)
  /\ inst.keyWrites = 0 => (inst.key = Undefined /\ inst.keyPromise = 1)

\* Two calls that started while the derivation was pending have both resumed.
C17_Witness ==
  /\ inst.keyWrites = 2
  /\ Cardinality(Resumed) = 2

\* C18: once a call has obtained the resolved key the pending-derivation
\* slot is empty, and every call that starts afterwards gets the cached key
\* at once, without awaiting the derivation promise again.
C18_PendingDiscarded ==
  /\ [](inst.key # Undefined => inst.keyPromise = 0)
  /\ [][(inst.key # Undefined /\ Len(calls') > Len(calls))
          => /\ calls'[Len(calls')].awaits = 0
             /\ calls'[Len(calls')].pc # "awaitPromise"
             /\ calls'[Len(calls')].key = inst.key]_vars

\* A call that started after the key was cached has completed.
C18_Witness ==
  /\ inst.keyPromise = 0
  /\ \E c \in CallIds :
       calls[c].awaits = 0 /\ calls[c].pc = "done" /\ calls[c].res.ok

\* C19: every getKey call on one instance resolves to the same key, the
\* result of the instance's single derivation, and the cached key, once set,
\* never changes.
C19_StableKey ==
  /\ [](\A c \in CallIds :
          (calls[c].op = "getKey" /\ calls[c].pc = "done" /\ calls[c].res.ok)
            => /\ promises[1].state = "fulfilled"
               /\ calls[c].res.val = promises[1].res.val)
  /\ [][inst.key # Undefined => inst'.key = inst.key]_vars

\* Two getKey calls, one that awaited the derivation and one that started
\* after it, have resolved.
C19_Witness ==
  /\ Len(calls) = 2
  /\ \A c \in CallIds :
       calls[c].op = "getKey" /\ calls[c].pc = "done" /\ calls[c].res.ok
  /\ calls[1].awaits = 1 /\ calls[2].awaits = 0

\* C20: in every state in which another call on the instance can run,
\* exactly one of the slots #keyPromise and #key is set, so a getKey call
\* never resolves to an undefined key.
C20_CacheSlotInvariant ==
  /\ (inst.key # Undefined) <=> (inst.keyPromise = 0)
  /\ \A c \in CallIds :
       (calls[c].op = "getKey" /\ calls[c].pc = "done" /\ calls[c].res.ok)
         => calls[c].res.val # Undefined

\* The key is cached and a getKey call has resolved while another call is
\* still suspended on the derivation promise.
C20_Witness ==
  /\ inst.key # Undefined /\ inst.keyPromise = 0
  /\ \E c \in CallIds : calls[c].pc = "awaitPromise"
  /\ \E c \in CallIds : calls[c].op = "getKey" /\ calls[c].pc = "done"

\* The state of the instance that its methods read: the cached key, the slot
\* of the pending derivation, and what the constructor was given (keyWrites
\* only counts assignments and is no part of it).
InstanceState(self) ==
  <<self.key, self.keyPromise, self.pass, self.extractable, self.rest>>

\* C21: once the key is cached, no step of a getKey, encrypt or decrypt call,
\* successful or failing, changes the instance state (the cached key, the
\* empty slot of the pending derivation, what the constructor stored) or the
\* derivation; and the step in which encrypt or decrypt runs the function of
\* the functional API writes nothing of the instance at all.
C21_FrameCondition ==
  [][/\ inst.key # Undefined
          => /\ InstanceState(inst') = InstanceState(inst)
             /\ promises' = promises
     /\ \A c \in CallIds :
          (calls[c].pc = "awaitGetKey" /\ calls'[c].pc = "done")
            => (inst' = inst /\ promises' = promises)]_vars

\* With the key cached, an encrypt call has succeeded and a decrypt call that
\* started afterwards has failed.
C21_Witness ==
  /\ inst.key # Undefined
  /\ Len(calls) = 2
  /\ calls[1].op = "encrypt" /\ calls[1].pc = "done" /\ calls[1].res.ok
  /\ calls[2].op = "decrypt" /\ calls[2].awaits = 0
  /\ calls[2].pc = "done" /\ ~calls[2].res.ok

\* The bytes encryptTextSymmetrically encoded into the envelope of e: the
\* nonce followed by what crypto.subtle.encrypt returned.
EncodedBytes(e) ==
  e.iv \o SubtleEncrypt([name |-> encryptionAlgorithm, iv |-> e.iv],
                        keys[e.key].res.val, TextEncode(e.text)).val

\* The alphabet decryptTextSymmetrically chooses for the string s.
DetectedOptions(s) == IF base64UrlRegexTest(s) THEN base64UrlOptions ELSE Undefined

HasPlusOrSlash(s) == \E i \in 1..Len(s) : s[i] = 43 \/ s[i] = 47

\* C22: for every envelope encryptTextSymmetrically produced, in either
\* alphabet, decoding it in the alphabet the auto-detection chooses (URL-safe
\* iff the string contains "-" or "_") gives exactly the bytes that were
\* encoded; a standard envelope containing "+" or "/" is taken as standard;
\* a URL-safe envelope with neither "-" nor "_" is decoded as standard to the
\* same bytes as the URL-safe decoding gives.  (Stated over the states before
\* a decrypt call, which leaves the envelopes as they are.)
C22_DetectionSound ==
  \A i \in 1..Len(encs) :
    (dec = NoCall /\ encs[i].res.ok) =>
      LET e   == encs[i]
          env == e.res.val
      IN /\ fromBase64(env, DetectedOptions(env)) = Ok(EncodedBytes(e))
         /\ (~e.urlSafe /\ HasPlusOrSlash(env)) => DetectedOptions(env) = Undefined
         /\ (e.urlSafe /\ ~base64UrlRegexTest(env))
              => /\ fromBase64(env, Undefined) = fromBase64(env, base64UrlOptions)
                 /\ fromBase64(env, base64UrlOptions) = Ok(EncodedBytes(e))

\* A URL-safe envelope containing neither "-" nor "_", and a standard
\* envelope containing "+" or "/", have been produced.
C22_Witness ==
  /\ \E i \in 1..Len(encs) :
       encs[i].res.ok /\ encs[i].urlSafe /\ ~base64UrlRegexTest(encs[i].res.val)
  /\ \E i \in 1..Len(encs) :
       encs[i].res.ok /\ ~encs[i].urlSafe /\ HasPlusOrSlash(encs[i].res.val)

\* The number of base64 characters, padding included, that encode n bytes.
Base64Length(n) == 4 * ((n + 2) \div 3)

\* C24: the envelope of a plaintext of n UTF-8 bytes decodes to exactly
\* n + 28 bytes (12 of nonce, n of ciphertext, 16 of tag) and, the padding
\* being kept in both alphabets, has exactly 16 + 4 * ceil((n + 16) / 3)
\* characters; the envelope of the empty plaintext has 40 characters and
\* still decrypts to the empty text.
C24_EnvelopeSize ==
  (Encrypted /\ LastEnc.res.ok) =>
    LET e   == LastEnc
        env == e.res.val
        n   == Len(TextEncode(e.text))
        raw == fromBase64(env, DetectedOptions(env))
    IN /\ raw.ok /\ Len(raw.val) = n + ivBytesLength + tagBytesLength
       /\ Len(env) = 16 + Base64Length(n + tagBytesLength)
       /\ e.text = <<>>
            => /\ Len(env) = 40
               /\ decryptTextSymmetrically(keys[e.key].res.val, env) = Ok(<<>>)

\* The empty plaintext has been encrypted in both alphabets, to envelopes of
\* 40 characters.
C24_Witness ==
  /\ Encrypted
  /\ Len(encs) = 2
  /\ \A i \in 1..2 : encs[i].text = <<>> /\ encs[i].res.ok
                        /\ Len(encs[i].res.val) = 40
  /\ encs[1].urlSafe # encs[2].urlSafe

\* Plaintexts of every length from 0 to 4 UTF-8 bytes are encrypted, on both
\* sides of a change of ceil((n + 16) / 3).
EnvelopeSizes ==
  \A n \in 0..4 : \E text \in Texts : Len(TextEncode(text)) = n

\* The encrypt calls of the instance that reached encryptTextSymmetrically.
EncryptDone ==
  {c \in CallIds : calls[c].op = "encrypt" /\ calls[c].pc = "done"
                     /\ calls[c].res.ok}

\* The calls of the free function that made the envelopes given to
\* instance.decrypt, each with its key, plaintext and nonce.
FunctionEncrypts ==
  {[key  |-> calls[c].src.key, pass |-> calls[c].src.pass,
    text |-> calls[c].src.text,
    iv   |-> ForeignIv(calls[c].src.pass, calls[c].src.text),
    res  |-> calls[c].arg] : c \in {d \in CallIds : calls[d].src.by = "function"}}

\* The nonce is the first 12 bytes of the envelope env and the nonce under
\* which the rest of it was sealed from text with key.
NonceUsed(env, key, text, iv) ==
  LET raw == fromBase64(env, DetectedOptions(env)) IN
    /\ Len(iv) = ivBytesLength
    /\ raw.ok
    /\ SubSeq(raw.val, 1, ivBytesLength) = iv
    /\ Ok(SubSeq(raw.val, ivBytesLength + 1, Len(raw.val)))
         = SubtleEncrypt([name |-> encryptionAlgorithm, iv |-> iv], key,
                         TextEncode(text))

\* C23: every encrypt call draws exactly one new 12-byte nonce, which is both
\* the nonce given to AES-GCM and the first 12 bytes of the envelope; over
\* the calls made so far, one after another or concurrently, on the instance
\* or with the free function, no nonce is used by two calls under the same
\* key.
C23_NonceDiscipline ==
  /\ Cardinality(rng) = Cardinality(EncryptDone)
  /\ \A c \in EncryptDone :
       /\ calls[c].iv \in rng
       /\ NonceUsed(calls[c].res.val, calls[c].key, calls[c].arg, calls[c].iv)
  /\ \A c, d \in EncryptDone :
       (c # d /\ calls[c].key = calls[d].key) => calls[c].iv # calls[d].iv
  /\ \A f \in FunctionEncrypts :
       /\ NonceUsed(f.res, f.key, f.text, f.iv)
       /\ \A c \in EncryptDone : calls[c].key = f.key => calls[c].iv # f.iv
       /\ \A g \in FunctionEncrypts :
            (g.key = f.key /\ g.iv = f.iv) => g.res = f.res

\* Two encrypt calls issued while the derivation was pending have both
\* completed.
C23_Witness ==
  /\ Len(calls) = 2
  /\ EncryptDone = {1, 2}
  /\ calls[1].awaits = 1 /\ calls[2].awaits = 1
  /\ calls[1].iv # calls[2].iv

\* An envelope of the free function under the instance's key has been given
\* to decrypt after an encrypt call of the instance completed.
NonceAcrossApis ==
  \E f \in FunctionEncrypts, c \in EncryptDone : f.key = calls[c].key

(***************************************************************************)
(* Properties of the variant with the property urlSafe (specification      *)
(* SpecUrlSafe).                                                           *)
(***************************************************************************)
\* The calls that have run the function of the functional API.
RanFunction == {c \in CallIds : calls[c].pc = "done" /\ calls[c].rest # <<>>}

\* C25: encrypt and decrypt use the alphabet that urlSafe holds when the call
\* resumes with the key, so that a write made while the call is suspended
\* determines the alphabet of that call; and on an instance whose urlSafe was
\* never written after construction, decrypt of what encrypt returned for a
\* text is that text, for every text.
C25_MutableUrlSafe ==
  /\ \A c \in RanFunction :
       /\ calls[c].res =
            IF calls[c].op = "encrypt"
            THEN encryptTextSymmetrically(calls[c].key, calls[c].arg,
                                          calls[c].rest[1], calls[c].iv)
            ELSE decryptTextSymmetricallyExplicit(calls[c].key, calls[c].arg,
                                                  calls[c].rest[1])
       /\ ~inst.urlSafeWritten => calls[c].rest[1] = inst.urlSafe
  /\ \A c \in CallIds :
       (~inst.urlSafeWritten /\ calls[c].op = "decrypt" /\ calls[c].pc = "done")
         => calls[c].res = Ok(calls[c].src.text)

\* The first half of C25, over the steps: the step in which a call resumes
\* with the key uses the alphabet urlSafe holds in the state it resumes in.
UrlSafeReadAtResume ==
  [][\A c \in CallIds :
       (calls[c].pc = "awaitGetKey" /\ calls'[c].pc = "done")
         => calls'[c].res =
              IF calls[c].op = "encrypt"
              THEN encryptTextSymmetrically(calls[c].key, calls[c].arg,
                                            inst.urlSafe, calls'[c].iv)
              ELSE decryptTextSymmetricallyExplicit(calls[c].key, calls[c].arg,
                                                    inst.urlSafe)]_vars

\* A call made while urlSafe was true and the derivation pending has used
\* the standard alphabet.
UrlSafeWrittenWhileSuspended ==
  \E c \in RanFunction :
    /\ calls[c].op = "encrypt" /\ calls[c].awaits = 1
    /\ calls[c].src.urlSafe /\ calls[c].rest = <<FALSE>>
    /\ calls[c].res.ok /\ HasPlusOrSlash(calls[c].res.val)

\* The second half of C25 up to the text codec: with urlSafe never written,
\* decrypt of what encrypt returned for a text is the text as decoded from
\* its encoding.
UrlSafeRoundTripUpToCodec ==
  \A c \in CallIds :
    (~inst.urlSafeWritten /\ calls[c].op = "decrypt" /\ calls[c].pc = "done")
      => calls[c].res = Ok(TextDecode(TextEncode(calls[c].src.text)))

=============================================================================
